---- MODULE Spec2Model ----
(***************************************************************************)
(* A model of GanttPlotter (src/GanttPlotter/GanttPlotter.py): the         *)
(* schedule object (resources, jobs, colour dictionary, x tick overrides), *)
(* its colour assignment, axis layout, bar geometry and JSON round trip.   *)
(*                                                                         *)
(* Numbers.  Times, tick values and the HSV/RGB channels are integers.     *)
(* A channel c of the program (a float in [0,1]) is the integer            *)
(* floor(c * Scale); the arithmetic of hsv_to_rgb and of the golden ratio  *)
(* generator is carried out in that fixed point, with floor division.      *)
(*                                                                         *)
(* Optional values.  Python's None is the empty tuple <<>>, a present      *)
(* value v is <<v>>; a colour is the triple <<r, g, b>>, so a colour       *)
(* and None can be compared.                                               *)
(***************************************************************************)
EXTENDS Integers, Sequences, FiniteSets, TLC

VARIABLES
    _resources,        \* self._resources: list of resource names
    _jobs,             \* self._jobs: list of GanttJob
    _job_color_dict,   \* self._job_color_dict: job name -> colour
    _y_tick_distance,  \* self._y_tick_distance
    _barheight,        \* self._barheight
    xticks_step_size,  \* self.xticks_step_size (optional)
    xticks_max_value,  \* self.xticks_max_value (optional)
    last               \* the last call: its name, arguments and what it produced

vars == <<_resources, _jobs, _job_color_dict, _y_tick_distance, _barheight,
          xticks_step_size, xticks_max_value, last>>

plotter_vars == <<_resources, _jobs, _job_color_dict, _y_tick_distance,
                  _barheight, xticks_step_size, xticks_max_value>>

-----------------------------------------------------------------------------
(* Bounds of the model. *)

\* Jobs are added while the job list is shorter than this.
MaxJobs == 3

\* Resources are added while the resource list is shorter than this.
MaxResources == 2

-----------------------------------------------------------------------------
(* Python values. *)

None == <<>>

Some(v) == <<v>>

\* bool(x) of an optional number: None and 0 are falsy.
Truthy(x) == x # None /\ x[1] # 0

Max(a, b) == IF a >= b THEN a ELSE b

Range(s) == {s[i] : i \in 1..Len(s)}

\* The empty dict {}.
EmptyDict == [n \in {} |-> None]

\* d[key] = value of a Python dict, as a function on its keys.
DictSet(d, key, value) ==
    [n \in DOMAIN d \cup {key} |-> IF n = key THEN value ELSE d[n]]

\* floor(sqrt(n)) by bisection on lo..hi, lo*lo <= n < (hi+1)*(hi+1).
RECURSIVE ISqrtBetween(_, _, _)
ISqrtBetween(n, lo, hi) ==
    IF lo >= hi THEN lo
    ELSE LET mid == (lo + hi + 1) \div 2
         IN  IF mid * mid <= n THEN ISqrtBetween(n, mid, hi)
                               ELSE ISqrtBetween(n, lo, mid - 1)

ISqrt(n) == ISqrtBetween(n, 0, 46340)

\* The fixed point unit: a channel value 1.0 is Scale.
Scale == 10 ^ 4

\* math.sqrt(x) of a fixed point x.
FixSqrt(x) == ISqrt(x * Scale)

\* math.fmod(x, m) for x >= 0 and m > 0.
fmod(x, m) == x % m

-----------------------------------------------------------------------------
(* class JobTypes(Enum) and class GanttJob. *)

JobTypes == {"PROCESS", "CHANGEOVER"}

\* A job_type of None (kept a string, as the members are).
NoJobType == "None"

\* JobTypes.X.value
JobTypeValue(t) == IF t = "PROCESS" THEN 1 ELSE 2

\* JobTypes(code): the member with that value (ValueError for any other code).
JobTypeOfValue(code) ==
    CASE code = 1 -> "PROCESS"
      [] code = 2 -> "CHANGEOVER"
      [] OTHER -> "ValueError"

\* An enum member is truthy; a job_type of None is not.
JobTypeTruthy(t) == t \in JobTypes

GanttJob(start_time, duration, resource, name, job_type) ==
    [start_time |-> start_time, duration |-> duration, resource |-> resource,
     name |-> name, job_type |-> job_type]

-----------------------------------------------------------------------------
(* Colours. *)

\* matplotlib.colors.hsv_to_rgb on one HSV triple, in fixed point.  The hue
\* is not reduced to [0,1): the sector i = int(h * 6) selects the first
\* branch when i % 6 = 0 and the others when i is 1..5, so the hue 180 of the
\* changeover colour falls in the first branch.  The program's hues have
\* i % 6 = 0 or i in 1..5; for any other hue the arrays stay unset, which is
\* the triple of -1 here.
hsv_to_rgb(hsv) ==
    LET h == hsv[1]
        s == hsv[2]
        v == hsv[3]
        i == (h * 6) \div Scale
        f == h * 6 - i * Scale
        p == (v * (Scale - s)) \div Scale
        q == (v * (Scale - (s * f) \div Scale)) \div Scale
        t == (v * (Scale - (s * (Scale - f)) \div Scale)) \div Scale
    IN  IF s = 0 THEN <<v, v, v>>
        ELSE CASE i % 6 = 0 -> <<v, t, p>>
               [] i = 1     -> <<q, v, p>>
               [] i = 2     -> <<p, v, t>>
               [] i = 3     -> <<p, q, v>>
               [] i = 4     -> <<t, p, v>>
               [] i = 5     -> <<v, p, q>>
               [] OTHER     -> <<-1, -1, -1>>

\* golden_ratio = (1 + 5 ** 0.5) / 2
golden_ratio == (Scale + FixSqrt(5 * Scale)) \div 2

\* i * 1 / golden_ratio
GoldenStep(i) == (i * 1 * Scale * Scale) \div golden_ratio

\* The colour the generator's comprehension builds for index i.
GeneratedColor(i) ==
    hsv_to_rgb(<<fmod(GoldenStep(i), Scale),
                 Scale \div 2,
                 FixSqrt(Scale - fmod(GoldenStep(i), Scale \div 2))>>)

\* processing_color = hsv_to_rgb([44 / 360, 0.70, 0.9])
processing_color == hsv_to_rgb(<<(44 * Scale) \div 360, (70 * Scale) \div 100,
                                 (9 * Scale) \div 10>>)

\* changeover_color = hsv_to_rgb([180, 0.1, 1]): the hue is 180, not 180/360.
changeover_color == hsv_to_rgb(<<180 * Scale, Scale \div 10, Scale>>)

\* np.array_equal(a, b) for colours (and None, which equals no array).
array_equal(a, b) == a # None /\ b # None /\ a = b

-----------------------------------------------------------------------------
(* Job names and colour generation. *)

\* list(dict.fromkeys(names)): the distinct names in first-encounter order.
RECURSIVE Dedup(_)
Dedup(names) ==
    IF names = <<>> THEN <<>>
    ELSE LET front == Dedup(SubSeq(names, 1, Len(names) - 1))
             x     == names[Len(names)]
         IN  IF x \in Range(front) THEN front ELSE Append(front, x)

_get_unique_job_names(jobs) == Dedup([i \in 1..Len(jobs) |-> jobs[i].name])

\* A count of the names of the jobs that are not changeovers only.
_calc_num_colors_needed_NoChangeover(jobs) ==
    Len(_get_unique_job_names(
           SelectSeq(jobs, LAMBDA job : job.job_type # "CHANGEOVER")))

_calc_num_colors_needed(jobs) == Len(_get_unique_job_names(jobs))

\* A generator whose colour at an index depends on the number of colours:
\* the same colours, last index first.
_generate_colors_Reversed(jobs) ==
    [k \in 1.._calc_num_colors_needed(jobs) |->
       GeneratedColor(_calc_num_colors_needed(jobs) - k)]

\* colors[k] of the program (k from 0) is _generate_colors(jobs)[k + 1].
_generate_colors(jobs) ==
    [k \in 1.._calc_num_colors_needed(jobs) |-> GeneratedColor(k - 1)]

-----------------------------------------------------------------------------
(* _generate_color_dict: the loop over self._jobs. *)

\* The loop's state: the dictionary, color_index, and what the loop did: the
\* warnings.warn calls (job names), the stores self._job_color_dict[name] =
\* new_color with the value each replaced, and the exception that ended it.
ColorLoopStart(dict) ==
    [dict |-> dict, color_index |-> 0, warned |-> <<>>, writes |-> <<>>,
     error |-> ""]

\* The warning is given when the name has an entry that differs from new_color.
OverwriteWarned(dict, name, new_color) ==
    name \in DOMAIN dict /\ ~array_equal(dict[name], new_color)

\* The store with the warning given for every name that has an entry, equal
\* colour or not.
StoreColor_WarnOnPresent(st, name, new_color) ==
    [st EXCEPT
       !.warned = IF name \in DOMAIN st.dict THEN Append(@, name) ELSE @,
       !.writes = Append(@, [name |-> name,
                             old  |-> IF name \in DOMAIN st.dict
                                      THEN st.dict[name] ELSE None,
                             new  |-> new_color]),
       !.dict   = DictSet(@, name, new_color)]

\* Lines 675-683: warn on an overwrite, then store.
StoreColor(st, name, new_color) ==
    [st EXCEPT
       !.warned = IF OverwriteWarned(st.dict, name, new_color)
                  THEN Append(@, name) ELSE @,
       !.writes = Append(@, [name |-> name,
                             old  |-> IF name \in DOMAIN st.dict
                                      THEN st.dict[name] ELSE None,
                             new  |-> new_color]),
       !.dict   = DictSet(@, name, new_color)]

\* new_color = colors[color_index]; color_index = color_index + 1; store.
\* Reading past the end of colors raises IndexError and ends the call.
TakeGeneratedColor(st, name, colors) ==
    IF st.color_index >= Len(colors)
    THEN [st EXCEPT !.error = "IndexError"]
    ELSE StoreColor([st EXCEPT !.color_index = @ + 1], name,
                    colors[st.color_index + 1])

\* Mode 0 without the skip of names that have an entry.
ColorMode0_NoSkip(st, job, colors) ==
    TakeGeneratedColor(st, job.name, colors)

\* Mode 0: a name that has an entry is skipped (continue).
ColorMode0(st, job, colors) ==
    IF job.name \in DOMAIN st.dict THEN st
    ELSE TakeGeneratedColor(st, job.name, colors)

\* Mode 1 without the skip of names that have an entry.
ColorMode1_NoSkip(st, job, colors) ==
    IF job.job_type = "CHANGEOVER"
    THEN StoreColor(st, job.name, changeover_color)
    ELSE TakeGeneratedColor(st, job.name, colors)

\* Mode 1 with changeover jobs passed over: nothing is stored for them.
ColorMode1_SkipChangeover(st, job, colors) ==
    IF job.job_type = "CHANGEOVER"
    THEN st
    ELSE IF job.name \in DOMAIN st.dict THEN st
         ELSE TakeGeneratedColor(st, job.name, colors)

\* Mode 1: a changeover gets changeover_color; any other job is skipped when
\* its name has an entry, and else takes the next generated colour.
ColorMode1(st, job, colors) ==
    IF job.job_type = "CHANGEOVER"
    THEN StoreColor(st, job.name, changeover_color)
    ELSE IF job.name \in DOMAIN st.dict THEN st
         ELSE TakeGeneratedColor(st, job.name, colors)

\* Mode 2: the colour follows the job's type alone.
ColorMode2(st, job) ==
    IF job.job_type = "CHANGEOVER"
    THEN StoreColor(st, job.name, changeover_color)
    ELSE StoreColor(st, job.name, processing_color)

\* One iteration of the loop body; any other mode stores new_color = None.
ColorLoopBody(st, job, mode, colors) ==
    CASE mode = 0 -> ColorMode0(st, job, colors)
      [] mode = 1 -> ColorMode1(st, job, colors)
      [] mode = 2 -> ColorMode2(st, job)
      [] OTHER    -> StoreColor(st, job.name, None)

\* The loop over jobs[k..]: an exception ends it.
RECURSIVE ColorLoop(_, _, _, _, _)
ColorLoop(st, jobs, k, mode, colors) ==
    IF k > Len(jobs) \/ st.error # "" THEN st
    ELSE ColorLoop(ColorLoopBody(st, jobs[k], mode, colors), jobs, k + 1,
                   mode, colors)

\* The whole call on a plotter with these jobs and this dictionary.
GenerateColorDict(jobs, dict, mode) ==
    ColorLoop(ColorLoopStart(dict), jobs, 1, mode, _generate_colors(jobs))

\* self._job_color_dict[job_name]; the lookup raises KeyError when the name
\* has no entry, which the callers below test with HasColorFor first.
_get_color_for(dict, job_name) == dict[job_name]

HasColorFor(dict, job_name) == job_name \in DOMAIN dict

-----------------------------------------------------------------------------
(* Axis layout. *)

\* range(n): 0 .. n-1 as a list, empty for n <= 0.
range(n) == [k \in 1..Max(n, 0) |-> k - 1]

\* str(value) of an integer.
str(value) == ToString(value)

\* _find_xticks(step_size, max_value): (xticks, xticklabels).
_find_xticks(step_size, max_value) ==
    LET number_full_ticks == max_value \div step_size + 1
        full == [k \in 1..Len(range(number_full_ticks)) |->
                   range(number_full_ticks)[k] * step_size]
        xticks == Append(full, max_value)
    IN  <<xticks, [k \in 1..Len(xticks) |-> str(xticks[k])]>>

\* _find_yticks with the ticks counted from 0: count in place of count + 1.
_find_yticks_FromZero(resources, y_tick_distance) ==
    LET origin_offset == 5
    IN  <<[count \in 1..Len(resources) |->
             origin_offset + (count - 1) * y_tick_distance],
          resources>>

\* _find_yticks(): (yticks, yticklabels).
_find_yticks(resources, y_tick_distance) ==
    LET origin_offset == 5
    IN  <<[count \in 1..Len(resources) |->
             origin_offset + ((count - 1) + 1) * y_tick_distance],
          resources>>

\* list.index(x): the first position (from 0) holding x; the caller tests
\* x \in Range(list) first, as index raises ValueError otherwise.
index(list, x) ==
    (CHOOSE k \in 1..Len(list) :
        list[k] = x /\ \A m \in 1..(k - 1) : list[m] # x) - 1

\* _get_bar_height(resource): the lower edge of the resource's band.
_get_bar_height(resources, y_tick_distance, resource) ==
    LET ticks == _find_yticks(resources, y_tick_distance)
        origin_offset == 5
    IN  ticks[1][index(ticks[2], resource) + 1] - origin_offset

_find_ymaxlim(resources) ==
    LET margin == 2
        height_per_resource == 10
        needed_height == height_per_resource * (Len(resources) + margin)
        lower_limit == margin * height_per_resource
    IN  Max(lower_limit, needed_height)

\* The loop of _find_xmaxlim over jobs[k..].
RECURSIVE LastEndtime(_, _, _)
LastEndtime(jobs, k, last_endtime) ==
    IF k > Len(jobs) THEN last_endtime
    ELSE LET end_time == jobs[k].start_time + jobs[k].duration
         IN  LastEndtime(jobs, k + 1,
                         IF end_time > last_endtime THEN end_time
                                                    ELSE last_endtime)

\* _find_xmaxlim(): the override when it is truthy, else max(1, last end).
_find_xmaxlim(jobs, max_value) ==
    IF Truthy(max_value) THEN max_value[1]
    ELSE LET lower_limit == 1
         IN  Max(lower_limit, LastEndtime(jobs, 1, 0))

\* _setup_plot_limits: gnt.set_ylim(0, .), gnt.set_xlim(0, .).
SetupPlotLimits(resources, jobs, max_value) ==
    [ylim |-> <<0, _find_ymaxlim(resources)>>,
     xlim |-> <<0, _find_xmaxlim(jobs, max_value)>>]

\* _setup_axis_ticks: x ticks are set only when the step size is truthy (None
\* stands for ticks left to the drawing surface); y ticks are always set.
SetupAxisTicks(resources, jobs, y_tick_distance, step_size, max_value) ==
    LET xt == IF Truthy(step_size)
              THEN _find_xticks(step_size[1], _find_xmaxlim(jobs, max_value))
              ELSE <<None, None>>
        yt == _find_yticks(resources, y_tick_distance)
    IN  [xticks |-> xt[1], xticklabels |-> xt[2],
         yticks |-> yt[1], yticklabels |-> yt[2]]

-----------------------------------------------------------------------------
(* Bar geometry. *)

\* The keys of resource_job_dict in insertion order: the resources of the
\* jobs in first-seen order.
ResourceOrder(jobs) == Dedup([k \in 1..Len(jobs) |-> jobs[k].resource])

\* The jobs of a resource sorted by start_time, not in the list's order.
RECURSIVE SelectJobs_Sorted(_, _)
SelectJobs_Sorted(jobs, resource) ==
    IF jobs = <<>> THEN <<>>
    ELSE LET front == SelectJobs_Sorted(SubSeq(jobs, 1, Len(jobs) - 1),
                                        resource)
             job   == jobs[Len(jobs)]
             n     == Cardinality({k \in 1..Len(front) :
                                     front[k].start_time <= job.start_time})
         IN  IF job.resource = resource
             THEN SubSeq(front, 1, n) \o <<job>>
                     \o SubSeq(front, n + 1, Len(front))
             ELSE front

\* resource_job_dict[resource]: the jobs of that resource, in the list's order.
RECURSIVE SelectJobs(_, _)
SelectJobs(jobs, resource) ==
    IF jobs = <<>> THEN <<>>
    ELSE LET front == SelectJobs(SubSeq(jobs, 1, Len(jobs) - 1), resource)
             job   == jobs[Len(jobs)]
         IN  IF job.resource = resource THEN Append(front, job) ELSE front

\* _generate_bars_for_resource(resource, job_list): (broken_bars, facecolors).
_generate_bars_for_resource(dict, job_list) ==
    <<[k \in 1..Len(job_list) |->
         <<job_list[k].start_time, job_list[k].duration>>],
      [k \in 1..Len(job_list) |-> _get_color_for(dict, job_list[k].name)]>>

\* The labelling without the test of the job's type: one gnt.text call per
\* bar, changeovers included.
RECURSIVE _add_labels_to_bars_All(_, _, _, _)
_add_labels_to_bars_All(job_list, broken_bars, lower_yaxis, barheight) ==
    IF broken_bars = <<>> THEN <<>>
    ELSE LET n     == Len(broken_bars)
             front == _add_labels_to_bars_All(job_list,
                                              SubSeq(broken_bars, 1, n - 1),
                                              lower_yaxis, barheight)
             bar   == broken_bars[n]
         IN  Append(front, [x2 |-> 2 * bar[1] + bar[2],
                            y2 |-> 2 * lower_yaxis + barheight,
                            s  |-> job_list[n].name])

\* _add_labels_to_bars: one gnt.text call per bar whose job is a PROCESS.
\* x = bar[0] + bar[1] / 2 and y = lower_yaxis + barheight / 2 are kept
\* doubled (x2 = 2x, y2 = 2y), so that halves stay integers.
RECURSIVE _add_labels_to_bars(_, _, _, _)
_add_labels_to_bars(job_list, broken_bars, lower_yaxis, barheight) ==
    IF broken_bars = <<>> THEN <<>>
    ELSE LET n     == Len(broken_bars)
             front == _add_labels_to_bars(job_list,
                                          SubSeq(broken_bars, 1, n - 1),
                                          lower_yaxis, barheight)
             bar   == broken_bars[n]
         IN  IF job_list[n].job_type = "PROCESS"
             THEN Append(front, [x2 |-> 2 * bar[1] + bar[2],
                                 y2 |-> 2 * lower_yaxis + barheight,
                                 s  |-> job_list[n].name])
             ELSE front

\* The loop body with a resource that is not in the list passed over: no
\* exception, no bars.
PlotResource_SkipUnknown(out, resource, job_list, plotter, label_processes) ==
    IF \E k \in 1..Len(job_list) : ~HasColorFor(plotter.dict, job_list[k].name)
    THEN [out EXCEPT !.error = "KeyError"]
    ELSE IF resource \notin Range(plotter.resources)
    THEN out
    ELSE LET built == _generate_bars_for_resource(plotter.dict, job_list)
             lower_yaxis == _get_bar_height(plotter.resources,
                                            plotter.y_tick_distance, resource)
         IN  [out EXCEPT
                !.bars = Append(@, [resource    |-> resource,
                                    broken_bars |-> built[1],
                                    yrange      |-> <<lower_yaxis,
                                                      plotter.barheight>>,
                                    facecolors  |-> built[2]]),
                !.texts = IF label_processes
                          THEN @ \o _add_labels_to_bars(job_list, built[1],
                                      lower_yaxis, plotter.barheight)
                          ELSE @]

\* One iteration of the loop of _plot_jobs over resource_job_dict.items().
\* The bars are built (a colour lookup may raise KeyError), then the band is
\* looked up (ValueError for a resource that is not in the list), then the
\* bars are drawn and, on request, labelled.
PlotResource(out, resource, job_list, plotter, label_processes) ==
    IF \E k \in 1..Len(job_list) : ~HasColorFor(plotter.dict, job_list[k].name)
    THEN [out EXCEPT !.error = "KeyError"]
    ELSE IF resource \notin Range(plotter.resources)
    THEN [out EXCEPT !.error = "ValueError"]
    ELSE LET built == _generate_bars_for_resource(plotter.dict, job_list)
             lower_yaxis == _get_bar_height(plotter.resources,
                                            plotter.y_tick_distance, resource)
         IN  [out EXCEPT
                !.bars = Append(@, [resource    |-> resource,
                                    broken_bars |-> built[1],
                                    yrange      |-> <<lower_yaxis,
                                                      plotter.barheight>>,
                                    facecolors  |-> built[2]]),
                !.texts = IF label_processes
                          THEN @ \o _add_labels_to_bars(job_list, built[1],
                                      lower_yaxis, plotter.barheight)
                          ELSE @]

RECURSIVE PlotLoop(_, _, _, _, _)
PlotLoop(out, order, k, plotter, label_processes) ==
    IF k > Len(order) \/ out.error # "" THEN out
    ELSE PlotLoop(PlotResource(out, order[k],
                               SelectJobs(plotter.jobs, order[k]), plotter,
                               label_processes),
                  order, k + 1, plotter, label_processes)

\* _plot_jobs(gnt, label_processes): the gnt.broken_barh and gnt.text calls
\* made, and the exception that ended the call, if one did.
_plot_jobs(plotter, label_processes) ==
    PlotLoop([bars |-> <<>>, texts |-> <<>>, error |-> ""],
             ResourceOrder(plotter.jobs), 1, plotter, label_processes)

\* _create_legend(color_mode, max_elements_per_column): the legend's
\* (colour, label) elements and its number of columns.
_create_legend(plotter, color_mode, max_elements_per_column) ==
    LET names == _get_unique_job_names(plotter.jobs)
        legend_elements ==
            CASE color_mode \in {0, 1} ->
                   [k \in 1..Len(names) |->
                      [facecolor |-> _get_color_for(plotter.dict, names[k]),
                       label     |-> names[k]]]
              [] color_mode = 2 ->
                   <<[facecolor |-> processing_color, label |-> "processing"],
                     [facecolor |-> changeover_color, label |-> "changeover"]>>
              [] OTHER -> <<>>
    IN  [handles |-> legend_elements,
         ncol    |-> Len(legend_elements) \div max_elements_per_column + 1]

-----------------------------------------------------------------------------
(* The schedule document: to_json and from_json. *)

VERSION == "0.3"

\* GanttPlotter(resources, jobs, xticks_step_size, xticks_max_value).
GanttPlotter(resources, jobs, step_size, max_value) ==
    [resources |-> resources, jobs |-> jobs, dict |-> EmptyDict,
     y_tick_distance |-> 10, barheight |-> 10,
     xticks_step_size |-> step_size, xticks_max_value |-> max_value]

\* ndarray.tolist() and np.array(list): the channels, one by one.
tolist(value) == [k \in 1..Len(value) |-> value[k]]

np_array(value) == [k \in 1..Len(value) |-> value[k]]

\* job.job_type.value if job.job_type else None
JobTypeToJson(job_type) ==
    IF JobTypeTruthy(job_type) THEN Some(JobTypeValue(job_type)) ELSE None

\* Reading a null job_type back as GanttJob's default, PROCESS.
JobTypeFromJson_DefaultProcess(code) ==
    IF Truthy(code) THEN JobTypeOfValue(code[1]) ELSE "PROCESS"

\* JobTypes(job_data["job_type"]) if job_data["job_type"] else None
JobTypeFromJson(code) ==
    IF Truthy(code) THEN JobTypeOfValue(code[1]) ELSE NoJobType

JobToJson(job) ==
    [start_time |-> job.start_time, duration |-> job.duration,
     resource |-> job.resource, name |-> job.name,
     job_type |-> JobTypeToJson(job.job_type)]

JobFromJson(job_data) ==
    GanttJob(job_data.start_time, job_data.duration, job_data.resource,
             job_data.name, JobTypeFromJson(job_data.job_type))

\* to_json(): the document json.dumps writes, as json.loads reads it back.
\* now is datetime.now().isoformat().
to_json(plotter, now) ==
    [metadata   |-> [creation_date |-> now,
                     gantt_plotter_version |-> VERSION],
     attributes |-> [_y_tick_distance |-> plotter.y_tick_distance,
                     _barheight |-> plotter.barheight,
                     _job_color_dict |->
                        [key \in DOMAIN plotter.dict |->
                           tolist(plotter.dict[key])],
                     xticks_step_size |-> plotter.xticks_step_size,
                     xticks_max_value |-> plotter.xticks_max_value],
     resources  |-> plotter.resources,
     jobs       |-> [k \in 1..Len(plotter.jobs) |-> JobToJson(plotter.jobs[k])]]

\* The attributes from_json restores on the plotter it has constructed.
RestoreAttributes(plotter, attributes) ==
    [plotter EXCEPT
       !.y_tick_distance = attributes._y_tick_distance,
       !.barheight = attributes._barheight,
       !.dict = [key \in DOMAIN attributes._job_color_dict |->
                   np_array(attributes._job_color_dict[key])]]

\* from_json(json_str): the reconstructed plotter.
from_json(schedule_dict) ==
    LET resources == schedule_dict.resources
        jobs_data == schedule_dict.jobs
        jobs == [k \in 1..Len(jobs_data) |-> JobFromJson(jobs_data[k])]
    IN  RestoreAttributes(
            GanttPlotter(resources, jobs,
                         schedule_dict.attributes.xticks_step_size,
                         schedule_dict.attributes.xticks_max_value),
            schedule_dict.attributes)

-----------------------------------------------------------------------------
(* The calls. *)

\* The plotter object, as the operators above take it.
Self ==
    [resources |-> _resources, jobs |-> _jobs, dict |-> _job_color_dict,
     y_tick_distance |-> _y_tick_distance, barheight |-> _barheight,
     xticks_step_size |-> xticks_step_size,
     xticks_max_value |-> xticks_max_value]

\* What a call leaves behind for the caller to see: its name and arguments,
\* the commands it gave the drawing surface, what it returned, and the
\* exception that ended it ("" for none).  A call fills in its own fields.
\* before is the dictionary as a colour assignment found it; again says that
\* a _generate_color_dict call directly follows one in the same mode.
\* colors is the list the caller holds from its latest _generate_colors
\* call, which add_job leaves with the caller, and previous is the list the
\* caller held when it made that call.
NoCall ==
    [op |-> "__init__", mode |-> None, label_processes |-> FALSE,
     job |-> None, resource |-> None, result |-> None,
     warned |-> <<>>, writes |-> <<>>, error |-> "",
     xlim |-> None, ylim |-> None,
     xticks |-> None, xticklabels |-> None,
     yticks |-> <<>>, yticklabels |-> <<>>,
     bars |-> <<>>, texts |-> <<>>, legend |-> None,
     json |-> None, plotter |-> None,
     before |-> EmptyDict, again |-> FALSE,
     colors |-> None, previous |-> None]

\* The record of a call named op.
Call(op) == [NoCall EXCEPT !.op = op]

Modes == {0, 1, 2}

Names == {"Job1", "Job2"}

JobTypeArgs == JobTypes \cup {NoJobType}

\* The state after GanttPlotter(xticks_step_size=., xticks_max_value=.).
InitWith(step_size, max_value) ==
    /\ _resources = GanttPlotter(<<>>, <<>>, step_size, max_value).resources
    /\ _jobs = GanttPlotter(<<>>, <<>>, step_size, max_value).jobs
    /\ _job_color_dict = GanttPlotter(<<>>, <<>>, step_size, max_value).dict
    /\ _y_tick_distance =
          GanttPlotter(<<>>, <<>>, step_size, max_value).y_tick_distance
    /\ _barheight = GanttPlotter(<<>>, <<>>, step_size, max_value).barheight
    /\ xticks_step_size =
          GanttPlotter(<<>>, <<>>, step_size, max_value).xticks_step_size
    /\ xticks_max_value =
          GanttPlotter(<<>>, <<>>, step_size, max_value).xticks_max_value
    /\ last = NoCall

add_resource(resource_name) ==
    /\ _resources' = Append(_resources, resource_name)
    /\ last' = Call("add_resource")
    /\ UNCHANGED <<_jobs, _job_color_dict, _y_tick_distance, _barheight,
                   xticks_step_size, xticks_max_value>>

add_job(job) ==
    /\ _jobs' = Append(_jobs, job)
    /\ last' = [Call("add_job") EXCEPT !.job = Some(job),
                                       !.colors = last.colors]
    /\ UNCHANGED <<_resources, _job_color_dict, _y_tick_distance, _barheight,
                   xticks_step_size, xticks_max_value>>

_generate_color_dict(mode) ==
    \E st \in {GenerateColorDict(_jobs, _job_color_dict, mode)} :
        /\ _job_color_dict' = st.dict
        /\ last' = [Call("_generate_color_dict") EXCEPT
                      !.mode = Some(mode), !.before = _job_color_dict,
                      !.again = (last.op = "_generate_color_dict"
                                 /\ last.mode = Some(mode)),
                      !.warned = st.warned, !.writes = st.writes,
                      !.error = st.error]
        /\ UNCHANGED <<_resources, _jobs, _y_tick_distance, _barheight,
                       xticks_step_size, xticks_max_value>>

_setup_plot_limits ==
    LET limits == SetupPlotLimits(_resources, _jobs, xticks_max_value)
    IN  /\ last' = [Call("_setup_plot_limits") EXCEPT
                      !.xlim = limits.xlim, !.ylim = limits.ylim]
        /\ UNCHANGED plotter_vars

_setup_axis_ticks ==
    LET ticks == SetupAxisTicks(_resources, _jobs, _y_tick_distance,
                                xticks_step_size, xticks_max_value)
    IN  /\ last' = [Call("_setup_axis_ticks") EXCEPT !.xticks = ticks.xticks,
                                  !.xticklabels = ticks.xticklabels,
                                  !.yticks = ticks.yticks,
                                  !.yticklabels = ticks.yticklabels]
        /\ UNCHANGED plotter_vars

\* What generate_gantt does to a plotter: limits, ticks, colours, bars,
\* legend, in that order.  An exception ends the call where it is raised: the
\* dictionary keeps what the colour loop stored and the surface keeps what
\* was drawn before.  The title, description, footnote and the image file are
\* the drawing surface's.
GenerateGantt(plotter, label_processes, color_mode) ==
    LET limits  == SetupPlotLimits(plotter.resources, plotter.jobs,
                                   plotter.xticks_max_value)
        ticks   == SetupAxisTicks(plotter.resources, plotter.jobs,
                                  plotter.y_tick_distance,
                                  plotter.xticks_step_size,
                                  plotter.xticks_max_value)
        st      == GenerateColorDict(plotter.jobs, plotter.dict, color_mode)
        colored == [plotter EXCEPT !.dict = st.dict]
        plotted == IF st.error = ""
                   THEN _plot_jobs(colored, label_processes)
                   ELSE [bars |-> <<>>, texts |-> <<>>, error |-> st.error]
        legend  == IF plotted.error = ""
                   THEN _create_legend(colored, color_mode, 11)
                   ELSE None
    IN  [dict |-> st.dict, limits |-> limits, ticks |-> ticks,
         warned |-> st.warned, writes |-> st.writes,
         bars |-> plotted.bars, texts |-> plotted.texts, legend |-> legend,
         error |-> plotted.error]

generate_gantt(label_processes, color_mode) ==
    \E out \in {GenerateGantt(Self, label_processes, color_mode)} :
        /\ _job_color_dict' = out.dict
        /\ last' = [Call("generate_gantt") EXCEPT
                      !.mode = Some(color_mode),
                      !.label_processes = label_processes,
                      !.before = _job_color_dict,
                      !.xlim = out.limits.xlim, !.ylim = out.limits.ylim,
                      !.xticks = out.ticks.xticks,
                      !.xticklabels = out.ticks.xticklabels,
                      !.yticks = out.ticks.yticks,
                      !.yticklabels = out.ticks.yticklabels,
                      !.warned = out.warned, !.writes = out.writes,
                      !.bars = out.bars, !.texts = out.texts,
                      !.legend = out.legend,
                      !.error = out.error]
        /\ UNCHANGED <<_resources, _jobs, _y_tick_distance, _barheight,
                       xticks_step_size, xticks_max_value>>

\* A call of _get_bar_height(resource): the band's lower edge it returns, or
\* the ValueError of list.index for a resource that is not in the list.
Call_get_bar_height(resource) ==
    /\ last' = IF resource \in Range(_resources)
               THEN [Call("_get_bar_height") EXCEPT
                       !.resource = Some(resource),
                       !.result = Some(_get_bar_height(_resources,
                                           _y_tick_distance, resource))]
               ELSE [Call("_get_bar_height") EXCEPT
                       !.resource = Some(resource), !.error = "ValueError"]
    /\ UNCHANGED plotter_vars

\* colors = plotter._generate_colors()
Call_generate_colors ==
    /\ last' = [Call("_generate_colors") EXCEPT
                  !.colors = Some(_generate_colors(_jobs)),
                  !.previous = last.colors]
    /\ UNCHANGED plotter_vars

\* json_dump = plotter.to_json()
export_json(now) ==
    /\ last' = [Call("to_json") EXCEPT !.json = to_json(Self, now)]
    /\ UNCHANGED plotter_vars

\* second_plotter = GanttPlotter.from_json(json_dump), on the document the
\* call before returned.
import_json ==
    /\ last.op = "to_json"
    /\ last' = [Call("from_json") EXCEPT !.plotter = from_json(last.json)]
    /\ UNCHANGED plotter_vars

-----------------------------------------------------------------------------
(* Colour assignment: jobs of every name and type are added and the colours *)
(* are assigned in every mode, in any order.                                *)

ColorJobs ==
    {GanttJob(40, 50, "Unit 1", n, t) : n \in Names, t \in JobTypeArgs}

Init == InitWith(None, None)

Next ==
    \/ \E job \in ColorJobs : Len(_jobs) < MaxJobs /\ add_job(job)
    \/ \E mode \in Modes : _generate_color_dict(mode)

Spec == Init /\ [][Next]_vars

-----------------------------------------------------------------------------
(* X axis: the plotter is constructed with every pair of overrides, jobs    *)
(* are added, and the limits and ticks are set up.                          *)

\* The step sizes tried are None and 0..MaxStep.
MaxStep == 8

\* The max values tried are None, 0..MaxOverride, and 160 and 165.
MaxOverride == 16

StepSizes == {None} \cup {Some(v) : v \in 0..MaxStep}

MaxValues ==
    {None} \cup {Some(v) : v \in 0..MaxOverride} \cup {Some(160), Some(165)}

\* The jobs of the module's example: they end at 90, 120 and 160.
TickJobs ==
    {GanttJob(40, 50, "Unit 1", "Job1", "PROCESS"),
     GanttJob(110, 10, "Unit 2", "Job2", "PROCESS"),
     GanttJob(150, 10, "Unit 2", "Job1", "PROCESS")}

InitTicks ==
    \E step_size \in StepSizes, max_value \in MaxValues :
        InitWith(step_size, max_value)

NextTicks ==
    \/ \E job \in TickJobs : Len(_jobs) < MaxJobs /\ add_job(job)
    \/ _setup_plot_limits
    \/ _setup_axis_ticks

SpecTicks == InitTicks /\ [][NextTicks]_vars

-----------------------------------------------------------------------------
(* Y axis: resources are added, the ticks are set up and the band of a      *)
(* resource is looked up.                                                   *)

\* Where only the y axis is looked at, resources are added while the list is
\* shorter than this.
MaxAxisResources == 3

AxisResources == {"A", "B", "C"}

NextAxis ==
    \/ \E r \in AxisResources :
          Len(_resources) < MaxAxisResources /\ add_resource(r)
    \/ _setup_axis_ticks
    \/ \E r \in AxisResources : Call_get_bar_height(r)

SpecAxis == Init /\ [][NextAxis]_vars

-----------------------------------------------------------------------------
(* Layout: resources and jobs are added and the chart is generated.         *)

LayoutResources == {"Unit 1", "Unit 2"}

\* The two jobs of Unit 2 in the module's example, and a changeover.
LayoutJobs ==
    {GanttJob(110, 10, "Unit 2", "Job2", "PROCESS"),
     GanttJob(150, 10, "Unit 2", "Job1", "PROCESS"),
     GanttJob(110, 30, "Unit 1", "Job2", "CHANGEOVER")}

NextLayout ==
    \/ \E r \in LayoutResources :
          Len(_resources) < MaxResources /\ add_resource(r)
    \/ \E job \in LayoutJobs : Len(_jobs) < MaxJobs /\ add_job(job)
    \/ \E label_processes \in BOOLEAN, color_mode \in Modes :
          generate_gantt(label_processes, color_mode)

SpecLayout == Init /\ [][NextLayout]_vars

-----------------------------------------------------------------------------
(* Colour generation: jobs of three names are added and the colour list is  *)
(* generated for the schedule as it grows.                                  *)

GeneratorNames == {"Job1", "Job2", "Job3"}

GeneratorJobs ==
    {GanttJob(40, 50, "Unit 1", n, "PROCESS") : n \in GeneratorNames}
       \cup {GanttJob(110, 30, "Unit 1", "Job1", "CHANGEOVER")}

NextColors ==
    \/ \E job \in GeneratorJobs : Len(_jobs) < MaxJobs /\ add_job(job)
    \/ Call_generate_colors

SpecColors == Init /\ [][NextColors]_vars

-----------------------------------------------------------------------------
(* Document round trip: a schedule is built, colours are assigned, and the  *)
(* schedule is written to a document and read back.                         *)

\* datetime.now().isoformat() at the time of a to_json call.
Dates == {"2023-05-25T10:00:00", "2023-05-25T10:00:01"}

\* One job of each job_type (PROCESS, CHANGEOVER, None).
JsonJobs ==
    {GanttJob(40, 50, "Unit 1", "Job1", "PROCESS"),
     GanttJob(110, 30, "Unit 2", "Job1", "CHANGEOVER"),
     GanttJob(0, 0, "Unit 2", "Job2", NoJobType)}

InitJson ==
    \/ InitWith(None, None)
    \/ InitWith(Some(8), Some(160))

NextJson ==
    \/ \E r \in LayoutResources :
          Len(_resources) < MaxResources /\ add_resource(r)
    \/ \E job \in JsonJobs : Len(_jobs) < MaxJobs /\ add_job(job)
    \/ \E mode \in Modes : _generate_color_dict(mode)
    \/ \E now \in Dates : export_json(now)
    \/ import_json

SpecJson == InitJson /\ [][NextJson]_vars

-----------------------------------------------------------------------------
(* Properties of colour assignment, checked under Spec. *)

JobNames == {_jobs[k].name : k \in 1..Len(_jobs)}

\* The last call was _generate_color_dict(mode).
Assigned(mode) ==
    last.op = "_generate_color_dict" /\ last.mode = Some(mode)

\* The last two calls were both _generate_color_dict(mode): no job was added
\* between them.
AssignedTwice(mode) == Assigned(mode) /\ last.again

\* Some PROCESS job and some CHANGEOVER job have the same name.
TypesShareName ==
    \E i, k \in 1..Len(_jobs) :
        /\ _jobs[i].name = _jobs[k].name
        /\ _jobs[i].job_type = "PROCESS"
        /\ _jobs[k].job_type = "CHANGEOVER"

\* C3: mode 2 is idempotent: a mode-2 call that follows a mode-2 call on the
\* same jobs gives no overwrite warning and leaves the dictionary as the
\* first call left it.
C3_Mode2Idempotent ==
    AssignedTwice(2) =>
        /\ last.warned = <<>>
        /\ _job_color_dict = last.before

\* C4: after a mode-0 call any two different job names have different
\* colours, whatever calls came before.
C4_Mode0DistinctColors ==
    (Assigned(0) /\ last.error = "") =>
        \A a, b \in JobNames :
            a # b =>
                /\ HasColorFor(_job_color_dict, a)
                /\ HasColorFor(_job_color_dict, b)
                /\ ~array_equal(_get_color_for(_job_color_dict, a),
                                _get_color_for(_job_color_dict, b))

\* C5: after a mode-2 call the colour looked up by name for every PROCESS
\* job is processing_color and for every CHANGEOVER job changeover_color.
C5_Mode2ColorByType ==
    Assigned(2) =>
        \A k \in 1..Len(_jobs) :
            /\ HasColorFor(_job_color_dict, _jobs[k].name)
            /\ _jobs[k].job_type = "PROCESS" =>
                 _get_color_for(_job_color_dict, _jobs[k].name)
                     = processing_color
            /\ _jobs[k].job_type = "CHANGEOVER" =>
                 _get_color_for(_job_color_dict, _jobs[k].name)
                     = changeover_color

\* C6: modes 0 and 1 are idempotent: a call in mode m that follows a call in
\* mode m on the same jobs ends without an exception, gives no overwrite
\* warning, stores nothing new and leaves the dictionary unchanged.
C6_Mode01Idempotent ==
    \A m \in {0, 1} :
        AssignedTwice(m) =>
            /\ last.error = ""
            /\ last.warned = <<>>
            /\ _job_color_dict = last.before

\* C6 happens: mode 1 was run twice on jobs among which a PROCESS job and a
\* CHANGEOVER job share a name, and another name is present too.
C6_Witness ==
    /\ AssignedTwice(1)
    /\ TypesShareName
    /\ Cardinality(JobNames) = 2

\* C7: mode 0 on an empty dictionary gives exactly one entry per distinct job
\* name, and the k-th distinct name in first-encounter order (k from 0) has
\* the generator's colour k.
C7_Mode0FirstEncounterOrder ==
    (Assigned(0) /\ last.before = EmptyDict) =>
        LET names == _get_unique_job_names(_jobs)
        IN  /\ last.error = ""
            /\ DOMAIN _job_color_dict = JobNames
            /\ Len(names) = Cardinality(JobNames)
            /\ \A k \in 0..(Len(names) - 1) :
                   _job_color_dict[names[k + 1]] = GeneratedColor(k)

\* C7 happens: mode 0 ran on an empty dictionary with the job names
\* [Job1, Job2, Job1].
C7_Witness ==
    /\ Assigned(0)
    /\ last.before = EmptyDict
    /\ [k \in 1..Len(_jobs) |-> _jobs[k].name] = <<"Job1", "Job2", "Job1">>
    /\ _job_color_dict = [n \in {"Job1", "Job2"} |->
                            IF n = "Job1" THEN GeneratedColor(0)
                                          ELSE GeneratedColor(1)]

-----------------------------------------------------------------------------
(* Properties of the x axis, checked under SpecTicks. *)

\* The number of positions of list that hold x.
Count(list, x) == Cardinality({k \in 1..Len(list) : list[k] = x})

\* C2: for a positive step size and an upper limit >= 1 the x ticks are the
\* multiples of the step from 0 to the largest one that does not exceed the
\* limit, then the limit; the limit is the last tick and occurs exactly once.
C2_XTicksLimitOnce ==
    LET step == xticks_step_size[1]
        limit == _find_xmaxlim(_jobs, xticks_max_value)
    IN  (/\ last.op = "_setup_axis_ticks"
         /\ xticks_step_size # None
         /\ step > 0
         /\ limit >= 1) =>
            /\ last.xticks # None
            /\ Range(last.xticks) =
                  {m \in 0..limit : m % step = 0} \cup {limit}
            /\ last.xticks[Len(last.xticks)] = limit
            /\ Count(last.xticks, limit) = 1

\* C8: the x axis upper limit is the xticks_max_value override whenever one
\* is set, whatever its value and whatever the jobs; with no override it is
\* the maximum of 1 and the largest start_time + duration of a job.
C8_XMaxLimit ==
    last.op = "_setup_plot_limits" =>
        last.xlim =
           <<0, IF xticks_max_value # None
                THEN xticks_max_value[1]
                ELSE CHOOSE m \in
                        {1} \cup {_jobs[k].start_time + _jobs[k].duration :
                                     k \in 1..Len(_jobs)} :
                        \A k \in 1..Len(_jobs) :
                            /\ m >= 1
                            /\ m >= _jobs[k].start_time + _jobs[k].duration>>

\* What _find_xticks does give: the multiples of the step from 0 to the
\* largest one that does not exceed the limit, then the limit once more, so
\* that a limit that is a multiple of the step is there twice.
XTicksAsBuilt ==
    LET step == xticks_step_size[1]
        limit == _find_xmaxlim(_jobs, xticks_max_value)
    IN  (/\ last.op = "_setup_axis_ticks"
         /\ xticks_step_size # None
         /\ step > 0
         /\ limit >= 1) =>
            /\ last.xticks =
                  [k \in 1..(limit \div step + 2) |->
                     IF k <= limit \div step + 1 THEN (k - 1) * step
                                                 ELSE limit]
            /\ Count(last.xticks, limit) = IF limit % step = 0 THEN 2 ELSE 1

\* What _find_xmaxlim does give: an override of 0 counts as no override.
XMaxLimitAsBuilt ==
    last.op = "_setup_plot_limits" =>
        last.xlim =
           <<0, IF xticks_max_value \notin {None, Some(0)}
                THEN xticks_max_value[1]
                ELSE Max(1, LastEndtime(_jobs, 1, 0))>>

-----------------------------------------------------------------------------
(* Properties of the y axis, checked under SpecAxis. *)

NoDuplicates(list) ==
    \A i, k \in 1..Len(list) : list[i] = list[k] => i = k

\* The band of the k-th resource, as _get_bar_height returns its lower edge.
BandLower(k) == _get_bar_height(_resources, _y_tick_distance, _resources[k])

\* C9: in a resource list without duplicates the k-th resource (from 1) has
\* the y tick 5 + 10k, labelled with its name, and the band from 10k = tick - 5
\* up; with the bar height 10 each band ends where the next one begins.
C9_YTicksAndBands ==
    NoDuplicates(_resources) =>
        /\ \A k \in 1..Len(_resources) :
              /\ _find_yticks(_resources, _y_tick_distance)[1][k] = 5 + 10 * k
              /\ _find_yticks(_resources, _y_tick_distance)[2][k]
                    = _resources[k]
              /\ BandLower(k) = 10 * k
              /\ k < Len(_resources) =>
                    BandLower(k) + _barheight = BandLower(k + 1)
        /\ last.op = "_setup_axis_ticks" =>
              /\ last.yticks = [k \in 1..Len(_resources) |-> 5 + 10 * k]
              /\ last.yticklabels = _resources
        /\ (last.op = "_get_bar_height" /\ last.error = "") =>
              \E k \in 1..Len(_resources) :
                  /\ last.resource = Some(_resources[k])
                  /\ last.result = Some(10 * k)

\* C9 happens: the resources are [A, B, C] and the ticks set are [15, 25, 35].
C9_Witness ==
    /\ _resources = <<"A", "B", "C">>
    /\ last.op = "_setup_axis_ticks"
    /\ last.yticks = <<15, 25, 35>>
    /\ <<BandLower(1), BandLower(2), BandLower(3)>> = <<10, 20, 30>>

-----------------------------------------------------------------------------
(* Properties of the bar geometry, checked under SpecLayout. *)

\* The positions in the job list of the jobs of a resource.
JobsOf(resource) == {k \in 1..Len(_jobs) : _jobs[k].resource = resource}

\* The position in the job list of the n-th job (from 1) of a resource.
NthJobOf(resource, n) ==
    CHOOSE k \in JobsOf(resource) :
        Cardinality({m \in JobsOf(resource) : m < k}) = n - 1

\* The position of the first job of a resource.
FirstJobOf(resource) == NthJobOf(resource, 1)

\* generate_gantt has run to its end.
Plotted == last.op = "generate_gantt" /\ last.error = ""

\* C10: the bars drawn partition the jobs by resource: one bar set per
\* resource that has a job, in the order in which the resources first occur
\* in the job list; the set of a resource holds (start_time, duration) of
\* each of its jobs, in the order of the job list, with the jobs' colours in
\* parallel, and is drawn at the band of that resource.
C10_BarsPartitionJobs ==
    Plotted =>
        /\ {last.bars[i].resource : i \in 1..Len(last.bars)}
              = {_jobs[k].resource : k \in 1..Len(_jobs)}
        /\ \A i, j \in 1..Len(last.bars) :
              i < j => FirstJobOf(last.bars[i].resource)
                          < FirstJobOf(last.bars[j].resource)
        /\ \A i \in 1..Len(last.bars) :
              LET bar == last.bars[i]
              IN  /\ Len(bar.broken_bars) = Cardinality(JobsOf(bar.resource))
                  /\ Len(bar.facecolors) = Len(bar.broken_bars)
                  /\ \A n \in 1..Len(bar.broken_bars) :
                        LET job == _jobs[NthJobOf(bar.resource, n)]
                        IN  /\ bar.broken_bars[n]
                                  = <<job.start_time, job.duration>>
                            /\ bar.facecolors[n] = _job_color_dict[job.name]
                  /\ \E k \in 1..Len(_resources) :
                        /\ _resources[k] = bar.resource
                        /\ \A m \in 1..(k - 1) : _resources[m] # bar.resource
                        /\ bar.yrange = <<10 * k, _barheight>>

\* C10 happens: Unit 1 comes second in the resource list but first in the job
\* list, and Unit 2 has the job starting at 150 before the one starting at
\* 110: the bar sets are Unit 1's, then Unit 2's [(150,10), (110,10)].
C10_Witness ==
    /\ Plotted
    /\ _resources = <<"Unit 2", "Unit 1">>
    /\ Len(last.bars) = 2
    /\ last.bars[1].resource = "Unit 1"
    /\ last.bars[2].resource = "Unit 2"
    /\ last.bars[2].broken_bars = <<<<150, 10>>, <<110, 10>>>>
    /\ last.bars[2].yrange = <<10, 10>>

\* The example: Unit 2 holds the jobs (110, 10) and (150, 10); its bars are
\* exactly these two, in input order, at Unit 2's band.
C10_Unit2Example ==
    /\ Plotted
    /\ _resources = <<"Unit 1", "Unit 2">>
    /\ \E i \in 1..Len(last.bars) :
          /\ last.bars[i].resource = "Unit 2"
          /\ last.bars[i].broken_bars = <<<<110, 10>>, <<150, 10>>>>
          /\ last.bars[i].yrange = <<20, 10>>

-----------------------------------------------------------------------------
(* The round trip, checked under SpecJson. *)

\* C1: from_json(to_json(s)) has the resources of s in order, the jobs of s
\* in order with equal start_time, duration, resource, name and job_type
\* (None stays None), the x tick overrides of s and the colour dictionary of
\* s (and its tick distance and bar height).
C1_JsonRoundTrip ==
    last.op = "from_json" =>
        /\ last.plotter.resources = _resources
        /\ Len(last.plotter.jobs) = Len(_jobs)
        /\ \A k \in 1..Len(_jobs) :
              /\ last.plotter.jobs[k].start_time = _jobs[k].start_time
              /\ last.plotter.jobs[k].duration = _jobs[k].duration
              /\ last.plotter.jobs[k].resource = _jobs[k].resource
              /\ last.plotter.jobs[k].name = _jobs[k].name
              /\ last.plotter.jobs[k].job_type = _jobs[k].job_type
        /\ last.plotter.xticks_step_size = xticks_step_size
        /\ last.plotter.xticks_max_value = xticks_max_value
        /\ DOMAIN last.plotter.dict = DOMAIN _job_color_dict
        /\ \A n \in DOMAIN _job_color_dict :
              array_equal(last.plotter.dict[n], _job_color_dict[n])
        /\ last.plotter.y_tick_distance = _y_tick_distance
        /\ last.plotter.barheight = _barheight

\* C1 happens: a schedule with two resources, jobs of all three job types,
\* both overrides set and colours for both names was written and read back.
C1_Witness ==
    /\ last.op = "from_json"
    /\ Len(_resources) = 2
    /\ {_jobs[k].job_type : k \in 1..Len(_jobs)} = JobTypeArgs
    /\ xticks_step_size = Some(8)
    /\ xticks_max_value = Some(160)
    /\ DOMAIN _job_color_dict = Names
    /\ last.plotter.dict = _job_color_dict

\* C1 happens for the empty schedule too.
C1_WitnessEmpty ==
    /\ last.op = "from_json"
    /\ _resources = <<>>
    /\ _jobs = <<>>
    /\ last.plotter.jobs = <<>>

-----------------------------------------------------------------------------
(* Properties of a layout call on an unlisted resource, checked under       *)
(* SpecLayout.                                                              *)

\* Some job's resource is not in the resource list.
UnknownResource ==
    \E k \in 1..Len(_jobs) : _jobs[k].resource \notin Range(_resources)

\* C11: a generate_gantt call on a schedule with a job on a resource that is
\* not in the resource list ends in the ValueError of the band lookup, with
\* no legend returned; no bar set is drawn for a resource that is not in the
\* list, and every bar set that was drawn before the error is at its own
\* resource's band.  When every job's resource is in the list the call ends
\* without an error.
C11_UnknownResourceFails ==
    last.op = "generate_gantt" =>
        /\ UnknownResource => (last.error = "ValueError" /\ last.legend = None)
        /\ ~UnknownResource => last.error = ""
        /\ \A n \in 1..Len(last.bars) :
              /\ last.bars[n].resource \in Range(_resources)
              /\ last.bars[n].yrange[1] =
                    _get_bar_height(_resources, _y_tick_distance,
                                    last.bars[n].resource)

\* A call that drew the bars of a listed resource and then failed on the
\* next, unlisted one.
C11_Witness ==
    /\ last.op = "generate_gantt"
    /\ UnknownResource
    /\ last.error = "ValueError"
    /\ Len(last.bars) = 1
    /\ Len(ResourceOrder(_jobs)) = 2

\* A call on a schedule with all resources listed: no error.
C11_WitnessListed ==
    /\ last.op = "generate_gantt"
    /\ ~UnknownResource
    /\ Len(ResourceOrder(_jobs)) = 2
    /\ last.error = ""

-----------------------------------------------------------------------------
(* Properties of the overwrite warning, checked under Spec.                 *)

\* The colour the dictionary holds for name before the k-th store of a call:
\* what the latest earlier store of that name left, else what the call found;
\* None for a name without an entry.
StoredBefore(k, name) ==
    LET earlier == {j \in 1..(k - 1) : last.writes[j].name = name}
    IN  IF earlier # {}
        THEN last.writes[CHOOSE j \in earlier : \A i \in earlier : i <= j].new
        ELSE IF name \in DOMAIN last.before THEN last.before[name] ELSE None

\* The stores of a call that put a different colour in place of a stored one.
ColorChanges ==
    SelectSeq(last.writes, LAMBDA w : w.old # None /\ w.old # w.new)

\* C12: in a colour assignment call the overwrite warnings are, in order,
\* the names of exactly the stores that replace the colour held for a name
\* by a different colour; the call ends without an exception, and for each
\* name stored the dictionary holds the colour of the last store.
C12_WarningsMatchOverwrites ==
    last.op = "_generate_color_dict" =>
        /\ \A k \in 1..Len(last.writes) :
              last.writes[k].old = StoredBefore(k, last.writes[k].name)
        /\ last.warned = [k \in 1..Len(ColorChanges) |-> ColorChanges[k].name]
        /\ last.error = ""
        /\ \A k \in 1..Len(last.writes) :
              (\A j \in (k + 1)..Len(last.writes) :
                   last.writes[j].name # last.writes[k].name)
                 => /\ last.writes[k].name \in DOMAIN _job_color_dict
                    /\ _job_color_dict[last.writes[k].name] =
                          last.writes[k].new

\* A call that stores an equal colour over one name without a warning and
\* a different colour over another name with a warning.
C12_Witness ==
    /\ last.op = "_generate_color_dict"
    /\ Len(last.warned) = 1
    /\ \E k \in 1..Len(last.writes) :
          /\ last.writes[k].old = last.writes[k].new
          /\ last.writes[k].name # last.warned[1]

-----------------------------------------------------------------------------
(* Properties of the bar labels, checked under SpecLayout.                  *)

\* The positions in the job list of the jobs whose job_type is PROCESS.
ProcessJobs == {k \in 1..Len(_jobs) : _jobs[k].job_type = "PROCESS"}

\* Job j is drawn before job k: its resource is first seen earlier in the
\* job list, or it is the same resource and j comes earlier.
DrawnBefore(j, k) ==
    \/ FirstJobOf(_jobs[j].resource) < FirstJobOf(_jobs[k].resource)
    \/ _jobs[j].resource = _jobs[k].resource /\ j < k

\* The place among the labels of the label of PROCESS job k.
LabelRank(k) == 1 + Cardinality({j \in ProcessJobs : DrawnBefore(j, k)})

\* C13: a generate_gantt call with label_processes that runs to its end
\* emits exactly one text per job whose job_type is PROCESS, bearing the
\* job's name at x = start_time + duration / 2 and y = lower edge of the
\* band of the job's resource + bar height / 2 (both doubled here), and none
\* for a CHANGEOVER job; without label_processes it emits no text at all.
C13_LabelsForProcessJobs ==
    Plotted =>
        IF last.label_processes
        THEN /\ Len(last.texts) = Cardinality(ProcessJobs)
             /\ \A k \in ProcessJobs :
                   last.texts[LabelRank(k)] =
                      [x2 |-> 2 * _jobs[k].start_time + _jobs[k].duration,
                       y2 |-> 2 * _get_bar_height(_resources, _y_tick_distance,
                                                  _jobs[k].resource)
                                 + _barheight,
                       s  |-> _jobs[k].name]
        ELSE last.texts = <<>>

\* A labelled chart of the two PROCESS jobs of Unit 2 and the CHANGEOVER job
\* of Unit 1: two texts, Job2 at (115, 25) and Job1 at (155, 25), none for
\* the changeover.
C13_Witness ==
    /\ Plotted
    /\ last.label_processes
    /\ _resources = <<"Unit 1", "Unit 2">>
    /\ Len(_jobs) = 3
    /\ \E k \in 1..Len(_jobs) : _jobs[k].job_type = "CHANGEOVER"
    /\ Cardinality(ProcessJobs) = 2
    /\ {last.texts[n] : n \in 1..Len(last.texts)} =
          {[x2 |-> 230, y2 |-> 50, s |-> "Job2"],
           [x2 |-> 310, y2 |-> 50, s |-> "Job1"]}

\* A chart of the same kind drawn without label_processes: bars, no texts.
C13_WitnessNoLabels ==
    /\ Plotted
    /\ ~last.label_processes
    /\ Cardinality(ProcessJobs) = 2
    /\ Len(last.bars) = 2
    /\ last.texts = <<>>

-----------------------------------------------------------------------------
(* Properties of the colour generator, checked under SpecColors.            *)

\* C14: _generate_colors returns exactly as many colours as the schedule
\* has distinct job names, and the colour at an index depends on the index
\* alone: the list returned for fewer (or as many) names by an earlier call
\* is the front of the list returned now.
C14_GeneratorPrefixStable ==
    last.op = "_generate_colors" =>
        /\ last.colors # None
        /\ Len(last.colors[1]) = Cardinality(JobNames)
        /\ last.previous # None =>
              /\ Len(last.previous[1]) <= Len(last.colors[1])
              /\ last.previous[1] =
                    SubSeq(last.colors[1], 1, Len(last.previous[1]))

\* A call for three names after a call for one name: the colour generated for
\* one name, (1, 0.5, 0.5), is the first of the three.
C14_Witness ==
    /\ last.op = "_generate_colors"
    /\ last.previous # None
    /\ last.previous[1] = <<<<10000, 5000, 5000>>>>
    /\ Len(last.colors[1]) = 3
    /\ Cardinality(JobNames) = 3

\* Two calls in a row on the same schedule of two names and three jobs: the
\* same two colours.
C14_WitnessSame ==
    /\ last.op = "_generate_colors"
    /\ last.previous = last.colors
    /\ Len(_jobs) = 3
    /\ Len(last.colors[1]) = 2

-----------------------------------------------------------------------------
(* Properties of the colour dictionary's keys, checked under SpecLayout.    *)

\* An RGB triple with every component in [0, 1].
IsColor(c) ==
    /\ DOMAIN c = 1..3
    /\ \A k \in 1..3 : c[k] \in 0..Scale

\* C15: in every state the keys of the colour dictionary are job names of
\* the schedule and each key holds one colour; directly after the colour
\* assignment of a generate_gantt call the keys are exactly the job names,
\* and no colour lookup of the call (bars or legend) fails.
C15_KeysAreJobNames ==
    /\ DOMAIN _job_color_dict \subseteq JobNames
    /\ \A name \in DOMAIN _job_color_dict : IsColor(_job_color_dict[name])
    /\ last.op = "generate_gantt" =>
          /\ DOMAIN _job_color_dict = JobNames
          /\ last.error # "KeyError"
          /\ \A n \in 1..Len(last.bars) :
                \A i \in 1..Len(last.bars[n].facecolors) :
                    IsColor(last.bars[n].facecolors[i])
          /\ (last.error = "" /\ last.mode \in {Some(0), Some(1)}) =>
                {last.legend.handles[i].label :
                    i \in 1..Len(last.legend.handles)} = JobNames

\* A generate_gantt call that found colours for one name only, on a
\* schedule of two names, and ran to its end with a colour for both.
C15_Witness ==
    /\ Plotted
    /\ Cardinality(DOMAIN last.before) = 1
    /\ Cardinality(JobNames) = 2
    /\ DOMAIN _job_color_dict = JobNames

\* Between assignments: a job of a new name is added and has no key yet.
C15_WitnessSubset ==
    /\ last.op = "add_job"
    /\ DOMAIN _job_color_dict # {}
    /\ DOMAIN _job_color_dict # JobNames

-----------------------------------------------------------------------------
(* Properties of the generator index, checked under Spec.                   *)

\* The stores of a call that took their colour from the generated list: in
\* modes 0 and 1 every store but that of changeover_color.
ColorReads ==
    SelectSeq(last.writes, LAMBDA w : w.new # changeover_color)

\* C16: a colour assignment call in mode 0 or 1 never reads past the end of
\* the generated list: the call does not end in an IndexError, it reads at
\* most as many colours as the schedule has distinct job names, and its k-th
\* read (from 0) is of colors[k].
C16_IndexWithinColors ==
    (last.op = "_generate_color_dict" /\ last.mode \in {Some(0), Some(1)}) =>
        /\ last.error = ""
        /\ Len(ColorReads) <= Cardinality(JobNames)
        /\ \A k \in 1..Len(ColorReads) :
              ColorReads[k].new = _generate_colors(_jobs)[k]

\* A mode 1 call on three jobs of two names, a changeover among them, that
\* found a colour for one name and read one colour for the other.
C16_Witness ==
    /\ last.op = "_generate_color_dict"
    /\ last.mode = Some(1)
    /\ Len(_jobs) = 3
    /\ Cardinality(JobNames) = 2
    /\ \E k \in 1..Len(_jobs) : _jobs[k].job_type = "CHANGEOVER"
    /\ \E k \in 1..Len(_jobs) : _jobs[k].job_type = NoJobType
    /\ Cardinality(DOMAIN last.before) = 1
    /\ Len(ColorReads) = 1

\* A mode 0 call from the empty dictionary on three jobs of two names: both
\* generated colours are read, the last at index 1.
C16_WitnessAllRead ==
    /\ last.op = "_generate_color_dict"
    /\ last.mode = Some(0)
    /\ last.before = EmptyDict
    /\ Len(_jobs) = 3
    /\ Cardinality(JobNames) = 2
    /\ Len(ColorReads) = 2

====
